---- MODULE Spec2Model ----
(***************************************************************************)
(* Suffix array facade (src/src/sa.rs) over the SA-IS construction.        *)
(* Arrays are TLA+ sequences; the code's 0-based index i is element i+1.   *)
(***************************************************************************)
EXTENDS Integers, Sequences, FiniteSets, TLC

\* ------------------------------------------------------------------ bounds
\* Size of the byte alphabet of the model (the code's u8 has 256 values).
NumBytes == 2
\* Longest string handed to the construction alone.
MaxBuildLen == 7
\* Longest string of a facade that is queried, and longest pattern.
MaxLen == 3
MaxPat == 3
\* Longest string handed to from_parts.
MaxPartsLen == 2
\* Longest integer sequence handed to sais_ints_mut, and its symbol range.
MaxInts == 7
MaxSym == 2

Bytes == 0..(NumBytes - 1)
StringsUpTo(A, n) == UNION {[1..l -> A] : l \in 0..n}

\* ------------------------------------------------------- slices and order
\* x < y on slices: lexicographic, a proper prefix is the smaller one.
RECURSIVE SliceLess(_, _)
SliceLess(x, y) ==
  IF y = <<>> THEN FALSE
  ELSE IF x = <<>> THEN TRUE
  ELSE IF Head(x) # Head(y) THEN Head(x) < Head(y)
  ELSE SliceLess(Tail(x), Tail(y))

\* Ordering of two slices: "lt", "eq" or "gt".
SliceCmp(x, y) == IF x = y THEN "eq" ELSE IF SliceLess(x, y) THEN "lt" ELSE "gt"

\* &s[i..]: the suffix from 0-based index i; defined for i <= len only.
SliceFrom(s, i) == SubSeq(s, i + 1, Len(s))
InBounds(s, i) == i >= 0 /\ i <= Len(s)

StartsWith(x, p) == Len(p) <= Len(x) /\ SubSeq(x, 1, Len(p)) = p

\* ------------------------------------------------------------ SA-IS
EMPTY == -1

\* type[i] for i in 0..n: TRUE is S-type, FALSE is L-type.
Classify(s) ==
  LET n == Len(s)
      t[i \in 0..n] ==
        IF i = n THEN TRUE
        ELSE IF i = n - 1 THEN FALSE
        ELSE s[i + 1] < s[i + 2] \/ (s[i + 1] = s[i + 2] /\ t[i + 1])
  IN [i \in 0..n |-> t[i]]

IsLMS(t, n, i) == i = n \/ (i > 0 /\ t[i] /\ ~t[i - 1])

\* Bucket cursors: slot 0 of out belongs to the terminator.
BucketHeads(s, k) == [c \in 0..(k - 1) |-> 1 + Cardinality({i \in 1..Len(s) : s[i] < c})]
BucketTails(s, k) == [c \in 0..(k - 1) |-> Cardinality({i \in 1..Len(s) : s[i] <= c})]

\* Place the positions of order, one after the other, at the tail of their bucket.
RECURSIVE PlaceAtTails(_, _, _, _, _)
PlaceAtTails(s, out, cur, order, j) ==
  IF j > Len(order) THEN out
  ELSE LET p == order[j]
           c == s[p + 1]
       IN PlaceAtTails(s, [out EXCEPT ![cur[c]] = p], [cur EXCEPT ![c] = @ - 1], order, j + 1)

\* out with the terminator seeded into slot 0 and the LMS positions at bucket tails.
PlaceLMS(s, k, order) ==
  LET n == Len(s)
      seeded == [i \in 0..n |-> IF i = 0 THEN n ELSE EMPTY]
  IN PlaceAtTails(s, seeded, BucketTails(s, k), order, 1)

\* Left-to-right scan: induce the L-type positions at the bucket heads.
RECURSIVE InduceL(_, _, _, _, _)
InduceL(s, t, out, cur, i) ==
  IF i > Len(s) THEN out
  ELSE IF out[i] # EMPTY /\ out[i] > 0 /\ ~t[out[i] - 1]
       THEN LET p == out[i] - 1
                c == s[p + 1]
            IN InduceL(s, t, [out EXCEPT ![cur[c]] = p], [cur EXCEPT ![c] = @ + 1], i + 1)
       ELSE InduceL(s, t, out, cur, i + 1)

\* Right-to-left scan: induce the S-type positions at the bucket tails.
RECURSIVE InduceS(_, _, _, _, _)
InduceS(s, t, out, cur, i) ==
  IF i < 0 THEN out
  ELSE IF out[i] # EMPTY /\ out[i] > 0 /\ t[out[i] - 1]
       THEN LET p == out[i] - 1
                c == s[p + 1]
            IN InduceS(s, t, [out EXCEPT ![cur[c]] = p], [cur EXCEPT ![c] = @ - 1], i - 1)
       ELSE InduceS(s, t, out, cur, i - 1)

\* Placement followed by the two induction scans.
InducedSort(s, k, t, order) ==
  LET afterL == InduceL(s, t, PlaceLMS(s, k, order), BucketHeads(s, k), 0)
  IN InduceS(s, t, afterL, BucketTails(s, k), Len(s))

\* The entries of f (a function on 0..hi) that lie in keep, in order.
RECURSIVE Compact(_, _, _, _)
Compact(f, hi, keep, i) ==
  IF i > hi THEN <<>>
  ELSE IF f[i] \in keep THEN <<f[i]>> \o Compact(f, hi, keep, i + 1)
  ELSE Compact(f, hi, keep, i + 1)

\* End of the LMS substring that starts at LMS position p < n.
NextLMS(t, n, p) == CHOOSE q \in (p + 1)..n :
                      IsLMS(t, n, q) /\ \A r \in (p + 1)..(q - 1) : ~IsLMS(t, n, r)

\* Two LMS substrings are equal: same symbols and same L/S type pattern.
SameLMSSubstring(s, t, p, q) ==
  LET n == Len(s)
      sym(i) == IF i = n THEN EMPTY ELSE s[i + 1]
  IN /\ p # n /\ q # n
     /\ NextLMS(t, n, p) - p = NextLMS(t, n, q) - q
     /\ \A d \in 0..(NextLMS(t, n, p) - p) :
          sym(p + d) = sym(q + d) /\ t[p + d] = t[q + d]

\* names[j]: the 0-based rank of the LMS substring at sorted[j].
LMSNames(s, t, sorted) ==
  LET nm[j \in 1..Len(sorted)] ==
        IF j = 1 THEN 0
        ELSE nm[j - 1] + (IF SameLMSSubstring(s, t, sorted[j - 1], sorted[j]) THEN 0 ELSE 1)
  IN [j \in 1..Len(sorted) |-> nm[j]]

Reverse(q) == [j \in 1..Len(q) |-> q[Len(q) + 1 - j]]

\* SA of a reduced string that is a permutation: the inverse map.
DirectSA(R) ==
  [j \in 1..(Len(R) + 1) |->
     IF j = 1 THEN Len(R) ELSE (CHOOSE x \in 1..Len(R) : R[x] = j - 2) - 1]

\* SA-IS cut after the first induced sort: no naming, no recursion.
SAIS_first_pass(s, k) ==
  LET n == Len(s)
      t == Classify(s)
      lms == {p \in 0..n : IsLMS(t, n, p)}
      ident == [i \in 0..n |-> i]
      P == Compact(ident, n, lms, 0)
      out == InducedSort(s, k, t, Reverse(SubSeq(P, 1, Len(P) - 1)))
  IN [i \in 1..(n + 1) |-> out[i - 1]]

\* SA-IS over symbols 0..k-1; the result is the sequence out[0..n].
RECURSIVE SAIS(_, _)
SAIS(s, k) ==
  LET n == Len(s)
      t == Classify(s)
      lms == {p \in 0..n : IsLMS(t, n, p)}
      ident == [i \in 0..n |-> i]
      \* LMS positions in text order, the terminator last.
      P == Compact(ident, n, lms, 0)
      m == Len(P)
      first == InducedSort(s, k, t, Reverse(SubSeq(P, 1, m - 1)))
      sorted == Compact(first, n, lms, 0)
      names == LMSNames(s, t, sorted)
      k1 == names[m] + 1
      R == [j \in 1..m |-> names[CHOOSE x \in 1..m : sorted[x] = P[j]]]
      SAR == IF k1 = m THEN DirectSA(R) ELSE SAIS(R, k1)
      final == [j \in 1..m |-> P[SAR[j + 1] + 1]]
      out == InducedSort(s, k, t, Reverse(SubSeq(final, 2, m)))
  IN [i \in 1..(n + 1) |-> out[i - 1]]

\* saca(&s, &mut sa): the byte-alphabet construction.
saca(str) == SAIS(str, NumBytes)

sais_ints_mut_first_pass(R, k) == SAIS_first_pass(R, k)

\* sais_ints_mut(s, k, sa): the integer-alphabet construction.
sais_ints_mut(R, k) == SAIS(R, k)

\* ------------------------------------------------------------ the facade
\* Option<Vec<u32>>: None is the empty sequence (a table is never empty).
None == <<>>

\* Number of columns of one first-byte row of the table: '$' and every byte.
Stride == NumBytes + 1

\* trunc(s, max): the slice cut to at most max bytes.
trunc(x, max) == SubSeq(x, 1, IF Len(x) < max THEN Len(x) ELSE max)

\* lcp(a, b): length of the longest common prefix.
RECURSIVE lcp(_, _)
lcp(a, b) ==
  IF a = <<>> \/ b = <<>> \/ Head(a) # Head(b) THEN 0
  ELSE 1 + lcp(Tail(a), Tail(b))

\* The predicate and the comparison of a search are functions of the element.
RECURSIVE binary_search_loop(_, _, _, _)
binary_search_loop(xs, pred, left, right) ==
  IF left < right
  THEN LET mid == (left + right) \div 2
       IN IF pred[xs[mid + 1]]
          THEN binary_search_loop(xs, pred, left, mid)
          ELSE binary_search_loop(xs, pred, mid + 1, right)
  ELSE left

binary_search(xs, pred) == binary_search_loop(xs, pred, 0, Len(xs))

\* slice::binary_search_by: [ok, i], the index found or the insertion point.
RECURSIVE binary_search_by_loop(_, _, _, _)
binary_search_by_loop(xs, cmp, left, right) ==
  IF left < right
  THEN LET mid == left + (right - left) \div 2
           c == cmp[xs[mid + 1]]
       IN IF c = "lt" THEN binary_search_by_loop(xs, cmp, mid + 1, right)
          ELSE IF c = "gt" THEN binary_search_by_loop(xs, cmp, left, mid)
          ELSE [ok |-> TRUE, i |-> mid]
  ELSE [ok |-> FALSE, i |-> left]

binary_search_by(xs, cmp) == binary_search_by_loop(xs, cmp, 0, Len(xs))

\* new without the call of saca: the zeroed vector is kept.
new_unbuilt(str) == [s |-> str, sa |-> [i \in 1..(Len(str) + 1) |-> 0], bkt |-> None]

\* SuffixArray::new
new(str) == [s |-> str, sa |-> saca(str), bkt |-> None]

\* The pairwise loop of check_integrity from index i on: "true", "false", or
\* "panic" when a slice start lies beyond the end of s.
RECURSIVE check_integrity_loop(_, _)
check_integrity_loop(f, i) ==
  IF i >= Len(f.sa) THEN "true"
  ELSE IF ~InBounds(f.s, f.sa[i]) \/ ~InBounds(f.s, f.sa[i + 1]) THEN "panic"
  ELSE IF ~SliceLess(SliceFrom(f.s, f.sa[i]), SliceFrom(f.s, f.sa[i + 1])) THEN "false"
  ELSE check_integrity_loop(f, i + 1)

\* check_integrity with x > y for x >= y: equal neighbours pass.
RECURSIVE check_integrity_gt_loop(_, _)
check_integrity_gt_loop(f, i) ==
  IF i >= Len(f.sa) THEN "true"
  ELSE IF ~InBounds(f.s, f.sa[i]) \/ ~InBounds(f.s, f.sa[i + 1]) THEN "panic"
  ELSE IF SliceLess(SliceFrom(f.s, f.sa[i + 1]), SliceFrom(f.s, f.sa[i])) THEN "false"
  ELSE check_integrity_gt_loop(f, i + 1)

check_integrity_gt(f) ==
  IF Len(f.s) + 1 # Len(f.sa) THEN "false" ELSE check_integrity_gt_loop(f, 1)

\* SuffixArray::check_integrity
check_integrity(f) ==
  IF Len(f.s) + 1 # Len(f.sa) THEN "false" ELSE check_integrity_loop(f, 1)

\* SuffixArray::from_parts: Some(compose), None, or the panic of the check.
from_parts(str, a) ==
  LET compose == [s |-> str, sa |-> a, bkt |-> None]
      ok == check_integrity(compose)
  IN IF ok = "true" THEN [out |-> "some", f |-> compose]
     ELSE IF ok = "false" THEN [out |-> "none"]
     ELSE [out |-> "panic"]

\* check of the sais_ints_mut test: the buffer after the call, the array
\* built, and the verdict of the pairwise loop.
check(R) ==
  LET k == Len(R)
      out == sais_ints_mut(R, k)
  IN [s |-> R, sa |-> out, ok |-> check_integrity_loop([s |-> R, sa |-> out], 1)]

\* SuffixArray::set: self.s is not assigned.
set(f, str) == [f EXCEPT !.sa = saca(str)]

\* bucket_counts with the '$' column of each row forgotten in the pair index.
bucket_counts_shifted(str) ==
  LET n == Len(str)
      pairIdx(i) == str[i + 1] * Stride + str[i + 2] + 1
      lastIdx == str[n] * Stride + 1
  IN [j \in 1..(NumBytes * Stride + 1) |->
        (IF j - 1 = 0 THEN 1 ELSE 0)
        + (IF n > 0 THEN Cardinality({i \in 0..(n - 2) : pairIdx(i) = j - 1}) ELSE 0)
        + (IF n > 0 /\ lastIdx = j - 1 THEN 1 ELSE 0)]

\* The counts of enable_buckets before the prefix sums.
bucket_counts(str) ==
  LET n == Len(str)
      pairIdx(i) == str[i + 1] * Stride + (str[i + 2] + 1) + 1
      lastIdx == str[n] * Stride + 1
  IN [j \in 1..(NumBytes * Stride + 1) |->
        (IF j - 1 = 0 THEN 1 ELSE 0)
        + (IF n > 0 THEN Cardinality({i \in 0..(n - 2) : pairIdx(i) = j - 1}) ELSE 0)
        + (IF n > 0 /\ lastIdx = j - 1 THEN 1 ELSE 0)]

\* The right boundaries: running sums of the counts.
prefix_sums(cnt) ==
  LET acc[j \in 1..Len(cnt)] == IF j = 1 THEN cnt[1] ELSE acc[j - 1] + cnt[j]
  IN [j \in 1..Len(cnt) |-> acc[j]]

\* SuffixArray::enable_buckets
enable_buckets(f) ==
  IF f.bkt # None THEN f
  ELSE [f EXCEPT !.bkt = prefix_sums(bucket_counts(f.s))]

\* SuffixArray::get_bucket
get_bucket(f, pat) ==
  IF f.bkt # None
  THEN IF Len(pat) > 1
       THEN LET idx == pat[1] * Stride + (pat[2] + 1) + 1
            IN [start |-> f.bkt[idx - 1 + 1], end |-> f.bkt[idx + 1]]
       ELSE IF Len(pat) = 1
       THEN LET start_idx == pat[1] * Stride
                end_idx == start_idx + Stride
            IN [start |-> f.bkt[start_idx + 1], end |-> f.bkt[end_idx + 1]]
       ELSE [start |-> 0, end |-> 1]
  ELSE [start |-> 0, end |-> Len(f.sa)]

\* SuffixArray::get_top_bucket
get_top_bucket(f, pat) ==
  IF f.bkt # None
  THEN IF Len(pat) > 0
       THEN LET start_idx == pat[1] * Stride
                end_idx == start_idx + Stride
            IN [start |-> f.bkt[start_idx + 1], end |-> f.bkt[end_idx + 1]]
       ELSE [start |-> 0, end |-> 1]
  ELSE [start |-> 0, end |-> Len(f.sa)]

\* &self.sa[bucket]
BucketSlice(f, b) == SubSeq(f.sa, b.start + 1, b.end)

\* find_region with pat < suffix for pat <= suffix in the lower bound.
find_region_strict(f, pat) ==
  LET bucket == get_bucket(f, pat)
      sl == BucketSlice(f, bucket)
      gt == [i \in 0..Len(f.s) |-> SliceLess(pat, SliceFrom(f.s, i))]
      start == binary_search(sl, gt)
      nostart == [i \in 0..Len(f.s) |-> ~StartsWith(SliceFrom(f.s, i), pat)]
      end == start + binary_search(SubSeq(sl, start + 1, Len(sl)), nostart)
  IN <<bucket.start + start, bucket.start + end>>

\* SuffixArray::find_region
find_region(f, pat) ==
  LET bucket == get_bucket(f, pat)
      sl == BucketSlice(f, bucket)
      geq == [i \in 0..Len(f.s) |-> ~SliceLess(SliceFrom(f.s, i), pat)]
      start == binary_search(sl, geq)
      nostart == [i \in 0..Len(f.s) |-> ~StartsWith(SliceFrom(f.s, i), pat)]
      end == start + binary_search(SubSeq(sl, start + 1, Len(sl)), nostart)
  IN <<bucket.start + start, bucket.start + end>>

\* SuffixArray::contains
contains(f, pat) ==
  LET sl == BucketSlice(f, get_bucket(f, pat))
      key == [i \in 0..Len(f.s) |-> SliceCmp(trunc(SliceFrom(f.s, i), Len(pat)), pat)]
  IN binary_search_by(sl, key).ok

RECURSIVE lower_loop(_, _, _, _, _)
lower_loop(f, sl, pat, i, k) ==
  IF i < k
  THEN LET m == i + (k - i) \div 2
       IN IF SliceLess(SliceFrom(f.s, sl[m + 1]), pat)
          THEN lower_loop(f, sl, pat, m + 1, k)
          ELSE lower_loop(f, sl, pat, i, m)
  ELSE i

RECURSIVE upper_loop(_, _, _, _, _)
upper_loop(f, sl, pat, j, k) ==
  IF j < k
  THEN LET m == j + (k - j) \div 2
       IN IF StartsWith(SliceFrom(f.s, sl[m + 1]), pat)
          THEN upper_loop(f, sl, pat, m + 1, k)
          ELSE upper_loop(f, sl, pat, j, m)
  ELSE j

\* SuffixArray::search_all
search_all(f, pat) ==
  LET sl == IF Len(pat) > 0 THEN BucketSlice(f, get_bucket(f, pat)) ELSE f.sa
      i == lower_loop(f, sl, pat, 0, Len(sl))
      j == upper_loop(f, sl, pat, i, Len(sl))
  IN SubSeq(sl, i + 1, j)

\* SuffixArray::search_lcp: the range <<start, end>>.
search_lcp(f, pat) ==
  LET sl == BucketSlice(f, get_bucket(f, pat))
      top == BucketSlice(f, get_top_bucket(f, pat))
      cmp == [i \in 0..Len(f.s) |-> SliceCmp(SliceFrom(f.s, i), pat)]
      found == binary_search_by(sl, cmp)
      i == found.i
      len_of(start) == lcp(pat, SliceFrom(f.s, start))
  IN IF Len(sl) = 0
     THEN IF Len(top) > 0
          THEN <<top[1], top[1] + 1>>
          ELSE <<Len(f.s), Len(f.s)>>
     ELSE IF found.ok
     THEN <<sl[i + 1], Len(f.s)>>
     ELSE IF i > 0 /\ i < Len(sl)
     THEN LET start_a == sl[i]
              start_b == sl[i + 1]
          IN IF len_of(start_a) > len_of(start_b)
             THEN <<start_a, start_a + len_of(start_a)>>
             ELSE <<start_b, start_b + len_of(start_b)>>
     ELSE IF i = 0
     THEN <<sl[1], sl[1] + len_of(sl[1])>>
     ELSE <<sl[i], sl[i] + len_of(sl[i])>>

\* ------------------------------------------------------------- the state
\* s, sa, bkt: the fields of the facade.  last: the string most recently passed
\* to new or set.  arg: the argument the caller holds for the next call.
\* res: the last call and what it returned (for enable_buckets: the facade
\* as it was before the call).
VARIABLES s, sa, bkt, last, arg, res

vars == <<s, sa, bkt, last, arg, res>>

facade == [s |-> s, sa |-> sa, bkt |-> bkt]

Strings == StringsUpTo(Bytes, MaxLen)
Patterns == StringsUpTo(Bytes, MaxPat)

\* A facade built by new(str), and a pattern to query it with.
Init ==
  \E str \in Strings :
    LET f == new(str)
    IN /\ s = f.s
       /\ sa = f.sa
       /\ bkt = f.bkt
       /\ last = str
       /\ arg \in Patterns
       /\ res = [op |-> "new"]

EnableBuckets ==
  /\ bkt' = enable_buckets(facade).bkt
  /\ res' = [op |-> "enable_buckets", before |-> facade]
  /\ UNCHANGED <<s, sa, last, arg>>

FindRegion ==
  /\ res' = [op |-> "find_region", pat |-> arg, val |-> find_region(facade, arg)]
  /\ UNCHANGED <<s, sa, bkt, last, arg>>

Contains ==
  /\ res' = [op |-> "contains", pat |-> arg, val |-> contains(facade, arg)]
  /\ UNCHANGED <<s, sa, bkt, last, arg>>

SearchAll ==
  /\ res' = [op |-> "search_all", pat |-> arg, val |-> search_all(facade, arg)]
  /\ UNCHANGED <<s, sa, bkt, last, arg>>

SearchLcp ==
  /\ res' = [op |-> "search_lcp", pat |-> arg, val |-> search_lcp(facade, arg)]
  /\ UNCHANGED <<s, sa, bkt, last, arg>>

Next ==
  \/ EnableBuckets
  \/ FindRegion
  \/ Contains
  \/ SearchAll
  \/ SearchLcp

Spec == Init /\ [][Next]_vars

\* ------------------------------------------------ construction on its own
\* No facade yet.
NoFacade == s = <<>> /\ sa = <<>> /\ bkt = None /\ last = <<>> /\ res = [op |-> "start"]

BuildStrings == StringsUpTo(Bytes, MaxBuildLen)

InitBuild == NoFacade /\ arg \in BuildStrings

New ==
  /\ res.op = "start"
  /\ LET f == new(arg)
     IN s' = f.s /\ sa' = f.sa /\ bkt' = f.bkt
  /\ last' = arg
  /\ res' = [op |-> "new"]
  /\ UNCHANGED arg

NextBuild == New

SpecBuild == InitBuild /\ [][NextBuild]_vars

\* ------------------------------------------------------------ new and set
InitSet ==
  \E str \in Strings :
    /\ LET f == new(str)
       IN s = f.s /\ sa = f.sa /\ bkt = f.bkt
    /\ last = str
    /\ arg = <<>>
    /\ res = [op |-> "new"]

Set(str) ==
  /\ LET f == set(facade, str)
     IN s' = f.s /\ sa' = f.sa /\ bkt' = f.bkt
  /\ last' = str
  /\ res' = [op |-> "set"]
  /\ UNCHANGED arg

NextSet ==
  \/ \E str \in Strings : Set(str)
  \/ EnableBuckets

SpecSet == InitSet /\ [][NextSet]_vars

\* -------------------------------------------------------------- from_parts
\* Caller data: a string and any index sequence, also with entries beyond n.
PartsInputs ==
  {[s |-> str, sa |-> a] : str \in StringsUpTo(Bytes, MaxPartsLen),
                           a \in StringsUpTo(0..(MaxPartsLen + 1), MaxPartsLen + 2)}

InitParts == NoFacade /\ arg \in PartsInputs

FromParts ==
  /\ res.op = "start"
  /\ LET r == from_parts(arg.s, arg.sa)
     IN /\ res' = [op |-> "from_parts", out |-> r.out]
        /\ IF r.out = "some"
           THEN s' = r.f.s /\ sa' = r.f.sa /\ bkt' = r.f.bkt /\ last' = arg.s
           ELSE UNCHANGED <<s, sa, bkt, last>>
  /\ UNCHANGED arg

NextParts == FromParts

SpecParts == InitParts /\ [][NextParts]_vars

\* ------------------------------------------ the test of sais_ints_mut
Min(a, b) == IF a < b THEN a ELSE b

\* ints(scale): a vector of length k over 0..k-1, here over at most MaxSym symbols.
IntInputs == UNION {[1..m -> 0..(Min(m, MaxSym) - 1)] : m \in 1..MaxInts}

InitInts == NoFacade /\ arg \in IntInputs

Check ==
  /\ res.op = "start"
  /\ LET r == check(arg)
     IN res' = [op |-> "check", s |-> r.s, sa |-> r.sa, ok |-> r.ok]
  /\ UNCHANGED <<s, sa, bkt, last, arg>>

NextInts == Check

SpecInts == InitInts /\ [][NextInts]_vars

\* ------------------------------------------------- what the claims speak of
\* The positions p of str where pat occurs.
Occ(str, pat) ==
  {p \in 0..Len(str) : p + Len(pat) <= Len(str) /\ SubSeq(str, p + 1, p + Len(pat)) = pat}

\* a is the suffix array of str.
IsSuffixArray(str, a) ==
  /\ Len(a) = Len(str) + 1
  /\ {a[i] : i \in 1..Len(a)} = 0..Len(str)
  /\ \A i \in 2..Len(a) : SliceLess(SliceFrom(str, a[i - 1]), SliceFrom(str, a[i]))

\* The SA entries at the 0-based positions lo..hi-1.
Entries(a, lo, hi) == {a[i + 1] : i \in lo..(hi - 1)}

Max(S) == CHOOSE x \in S : \A y \in S : y <= x

\* The longest common prefix of pat with any suffix of str.
BestLcp(str, pat) == Max({lcp(pat, SliceFrom(str, i)) : i \in 0..Len(str)})

\* A query by name, on facade f.
QueryOn(op, f, pat) ==
  IF op = "find_region" THEN find_region(f, pat)
  ELSE IF op = "contains" THEN contains(f, pat)
  ELSE IF op = "search_all" THEN search_all(f, pat)
  ELSE search_lcp(f, pat)

QueryOps == {"find_region", "contains", "search_all", "search_lcp"}

\* C2: for a non-empty pattern, with or without the bucket index, find_region
\* returns (lo, hi) with lo <= hi <= n+1 whose SA entries are exactly the
\* occurrences of the pattern; search_all returns the slice SA[lo..hi) and
\* contains is true exactly when lo < hi.
C2_QueriesExact ==
  (res.op \in {"find_region", "contains", "search_all"} /\ res.pat # <<>>) =>
    LET fr == find_region(facade, res.pat)
        lo == fr[1]
        hi == fr[2]
    IN /\ lo <= hi /\ hi <= Len(s) + 1
       /\ Entries(sa, lo, hi) = Occ(s, res.pat)
       /\ res.op = "find_region" => res.val = fr
       /\ res.op = "search_all" => res.val = SubSeq(sa, lo + 1, hi)
       /\ res.op = "contains" => res.val = (lo < hi)

\* Overlapping occurrences found through the bucket index.
C2_Witness ==
  /\ res.op = "search_all" /\ bkt # None
  /\ Len(res.pat) = 2 /\ Len(res.val) = 2 /\ Len(s) = 3

\* The part of C3 that does not fix where an empty match lies.
SearchLcpLongest ==
  res.op = "search_lcp" =>
    LET p == res.val[1]
        l == res.val[2] - res.val[1]
    IN /\ l >= 0 /\ p + l <= Len(s)
       /\ SubSeq(s, p + 1, p + l) = SubSeq(res.pat, 1, l)
       /\ l = BestLcp(s, res.pat)
       /\ \A q \in 0..Len(s) : SliceFrom(s, q) = res.pat => res.val = <<q, Len(s)>>

\* C3: search_lcp returns [p, p+l) with p+l <= n, S[p..p+l] = pat[0..l] and l
\* the longest common prefix of pat with any suffix; it is [n, n) when no
\* suffix shares the first byte of pat, and [p, n) when pat is the suffix at p.
C3_SearchLcp ==
  /\ SearchLcpLongest
  /\ (res.op = "search_lcp" /\ res.pat # <<>> /\ Occ(s, <<res.pat[1]>>) = {})
       => res.val = <<Len(s), Len(s)>>

\* C7: for a non-empty pattern every query returns the same result on the
\* facade without the bucket index and on the same facade with it.
C7_BucketEquivalence ==
  (res.op \in QueryOps /\ res.pat # <<>>) =>
    /\ res.val = QueryOn(res.op, [facade EXCEPT !.bkt = None], res.pat)
    /\ res.val = QueryOn(res.op, enable_buckets([facade EXCEPT !.bkt = None]), res.pat)

\* C8: find_region of the empty pattern returns (0, n+1), before and after
\* enable_buckets.
C8_EmptyPattern ==
  (res.op = "find_region" /\ res.pat = <<>>) => res.val = <<0, Len(s) + 1>>

\* The table of right boundaries describes the SA of the string.
TableDescribesSA ==
  LET n == Len(s)
      at(p) == sa[p + 1]
      range(b) == b.start..(b.end - 1)
  IN /\ \A j \in 1..(Len(bkt) - 1) : bkt[j] <= bkt[j + 1]
     /\ bkt[Len(bkt)] = n + 1
     /\ \A c0 \in Bytes, c1 \in Bytes, rest \in StringsUpTo(Bytes, 1) :
          range(get_bucket(facade, <<c0, c1>> \o rest)) =
            {p \in 0..n : /\ at(p) < n /\ s[at(p) + 1] = c0
                          /\ at(p) + 1 < n /\ s[at(p) + 2] = c1}
     /\ \A c0 \in Bytes :
          range(get_bucket(facade, <<c0>>)) =
            {p \in 0..n : at(p) < n /\ s[at(p) + 1] = c0}

\* C10: after enable_buckets the table is non-decreasing, ends at n+1, and
\* the range of every byte pair and of every single byte is exactly the set
\* of SA positions whose suffix starts with it; a second enable_buckets call
\* changes neither the table nor S nor SA.
C10_BucketTable ==
  /\ bkt # None => TableDescribesSA
  /\ (res.op = "enable_buckets" /\ res.before.bkt # None) => facade = res.before

\* A second enable_buckets call on a string with a two-byte bucket in use.
C10_Witness ==
  /\ res.op = "enable_buckets" /\ res.before.bkt # None
  /\ Len(s) = 3 /\ s[1] # s[2]
  /\ get_bucket(facade, <<s[1], s[2]>>).start < get_bucket(facade, <<s[1], s[2]>>).end

\* C1: new(S) holds an SA of length n+1 that is a permutation of 0..n, starts
\* with n, and lists the suffixes in strictly increasing order.
C1_NewBuildsSA ==
  res.op = "new" =>
    /\ s = arg
    /\ Len(sa) = Len(s) + 1
    /\ {sa[i] : i \in 1..Len(sa)} = 0..Len(s)
    /\ sa[1] = Len(s)
    /\ \A i \in 2..Len(sa) : SliceLess(SliceFrom(s, sa[i - 1]), SliceFrom(s, sa[i]))

\* A string whose LMS substrings repeat, so that the construction recurses.
C1_Witness == res.op = "new" /\ s = <<1, 0, 1, 0, 1, 0, 1>> /\ sa[2] = 5

\* C4: after new and any sequence of set and enable_buckets, the stored SA is
\* the suffix array of the stored string, which is the string last passed in.
C4_SetRebuilds == IsSuffixArray(s, sa) /\ s = last

\* C5: with every entry of SA' in 0..n, from_parts returns the facade exactly
\* when SA' is the suffix array of S, and None otherwise.
C5_FromPartsExact ==
  (res.op = "from_parts" /\ \A i \in 1..Len(arg.sa) : arg.sa[i] <= Len(arg.s)) =>
    /\ res.out \in {"some", "none"}
    /\ res.out = "some" <=> IsSuffixArray(arg.s, arg.sa)
    /\ res.out = "some" => (s = arg.s /\ sa = arg.sa /\ bkt = None)

\* A cyclic shift of the suffix array of a two-byte string is refused.
C5_Witness ==
  /\ res.op = "from_parts" /\ res.out = "none"
  /\ Len(arg.s) = 2
  /\ arg.sa = Tail(saca(arg.s)) \o <<Head(saca(arg.s))>>

\* C6: with SA' of length n+1 holding an entry greater than n, from_parts
\* completes and returns None.
C6_OutOfRangeRefused ==
  (/\ res.op = "from_parts"
   /\ Len(arg.sa) = Len(arg.s) + 1
   /\ \E i \in 1..Len(arg.sa) : arg.sa[i] > Len(arg.s))
    => res.out = "none"

====
